---- MODULE Spec2Model ----
(***************************************************************************)
(* Conway games of games.py: the canonicalizing constructor                *)
(* Game.__classcall__, the comparator Game._cmp, the memoized arithmetic   *)
(* (_sum, __neg__, __sub__, _mul), the depth (birthday) and the interning  *)
(* store of CachedRepresentation.                                          *)
(*                                                                         *)
(* A Game instance is modelled by the record [L |-> ..., R |-> ...] of its *)
(* two option sets.  The interning store is keyed by (frozenset(L),        *)
(* frozenset(R)) whose members are compared by identity, so two instances  *)
(* are the same instance exactly when their records are equal.             *)
(***************************************************************************)
EXTENDS Integers, Sequences, FiniteSets, TLC

\* ---------------------------------------------------------------- bounds
\* largest number of candidates a caller passes for one side
MaxOpts == 2
\* number of top-level calls in one behaviour
MaxCalls == 2
\* integers offered to the numeric constructor are in -MaxInt..MaxInt
MaxInt == 3
\* denominators offered to the numeric constructor are in 1..MaxDen
MaxDen == 4
\* largest number of integers in one collection
MaxList == 3
\* operands offered to the multiplication have at most this depth
MaxMulDepth == 1

\* ---------------------------------------------------------------- values
\* the object Fuzzy: every ordering test against it is False
Fuzzy == 2

MkGame(L, R) == [L |-> L, R |-> R]

zero == MkGame({}, {})

\* c >= 0, c <= 0, c > 0, c < 0 for c an integer or Fuzzy
IsGe(c) == c = 0 \/ c = 1
IsLe(c) == c = 0 \/ c = -1
IsGt(c) == c = 1
IsLt(c) == c = -1

\* ------------------------------------------------------------ comparator
RECURSIVE _cmp(_, _)

\* a comparator that answers -1 in both one-sided cases
cmpNeverGreater(x, y) ==
  LET x_le_y == (\A xl \in x.L : ~IsGe(_cmp(xl, y)))
                /\ (\A yr \in y.R : ~IsGe(_cmp(x, yr)))
      y_le_x == (\A yl \in y.L : ~IsGe(_cmp(yl, x)))
                /\ (\A xr \in x.R : ~IsGe(_cmp(y, xr)))
  IN  IF x_le_y THEN (IF y_le_x THEN 0 ELSE -1)
                ELSE (IF y_le_x THEN -1 ELSE Fuzzy)

_cmp(x, y) ==
  LET x_le_y == (\A xl \in x.L : ~IsGe(_cmp(xl, y)))
                /\ (\A yr \in y.R : ~IsGe(_cmp(x, yr)))
      y_le_x == (\A yl \in y.L : ~IsGe(_cmp(yl, x)))
                /\ (\A xr \in x.R : ~IsGe(_cmp(y, xr)))
  IN  IF x_le_y THEN (IF y_le_x THEN 0 ELSE -1)
                ELSE (IF y_le_x THEN 1 ELSE Fuzzy)

__le__(x, y) == IsLe(_cmp(x, y))
__ge__(x, y) == IsGe(_cmp(x, y))

\* ----------------------------------------------------------------- depth
RECURSIVE _depth(_)

\* a depth that counts the zero game as one level
depthFromOne(x) ==
  IF x = zero THEN 1
  ELSE LET ds == {_depth(l) : l \in x.L \cup x.R}
       IN  (CHOOSE d \in ds : \A e \in ds : e <= d) + 1

_depth(x) ==
  IF x = zero THEN 0
  ELSE LET ds == {_depth(l) : l \in x.L \cup x.R}
       IN  (CHOOSE d \in ds : \A e \in ds : e <= d) + 1

\* ------------------------------------------------------- list operations
\* the orders in which a frozenset can be iterated
RECURSIVE Orders(_)
Orders(S) ==
  IF S = {} THEN {<<>>}
  ELSE UNION {{<<e>> \o p : p \in Orders(S \ {e})} : e \in S}

\* list.remove(y): drops the first occurrence of y
RECURSIVE ListRemove(_, _)
ListRemove(l, y) ==
  IF l = <<>> THEN <<>>
  ELSE IF Head(l) = y THEN Tail(l)
  ELSE <<Head(l)>> \o ListRemove(Tail(l), y)

\* --------------------------------------------------------- canonicalizer
\* The scan "for y in list(L)" of the Left loop: snap is what is left of
\* the snapshot list(L), L the queue being edited, c the last comparison.
RECURSIVE ScanLeft(_, _, _, _)

\* a scan that never removes a dominated y from the queue
ScanLeftKeeping(x, snap, L, c) ==
  IF snap = <<>> THEN [L |-> L, c |-> c]
  ELSE LET c2 == _cmp(x, Head(snap))
       IN  IF IsLt(c2) THEN [L |-> L, c |-> c2]
           ELSE ScanLeft(x, Tail(snap), L, c2)

ScanLeft(x, snap, L, c) ==
  IF snap = <<>> THEN [L |-> L, c |-> c]
  ELSE LET y == Head(snap)
           c2 == _cmp(x, y)
           L2 == IF IsGt(c2) THEN ListRemove(L, y) ELSE L
       IN  IF IsLt(c2) THEN [L |-> L2, c |-> c2]
           ELSE ScanLeft(x, Tail(snap), L2, c2)

RECURSIVE ScanRight(_, _, _, _)
ScanRight(x, snap, R, c) ==
  IF snap = <<>> THEN [R |-> R, c |-> c]
  ELSE LET y == Head(snap)
           c2 == _cmp(x, y)
           R2 == IF IsLt(c2) THEN ListRemove(R, y) ELSE R
       IN  IF IsGt(c2) THEN [R |-> R2, c |-> c2]
           ELSE ScanRight(x, Tail(snap), R2, c2)

\* The queues one iteration of "while L:" can leave: x = L.pop(0) is either
\* reversible through the first xr of x.R (in iteration order) with xr <= g,
\* or is compared with the rest of the queue.
\* an iteration that leaves a reversible x in the queue
LeftIterationRequeue(L, arr, g) ==
  LET x == Head(L)
      rest == Tail(L)
      revs == {xr \in x.R : __le__(xr, g)}
  IN  IF revs # {}
      THEN {[L |-> rest \o p \o <<x>>, arr |-> arr]
              : p \in UNION {Orders(xr.L) : xr \in revs}}
      ELSE LET s == ScanLeft(x, rest, rest, 0)
           IN  {[L |-> s.L, arr |-> IF IsLt(s.c) THEN arr ELSE Append(arr, x)]}

\* an iteration that takes x for reversible through any xr, xr <= g or not
LeftIterationAnyRight(L, arr, g) ==
  LET x == Head(L)
      rest == Tail(L)
  IN  IF x.R # {}
      THEN {[L |-> rest \o p, arr |-> arr] : p \in UNION {Orders(xr.L) : xr \in x.R}}
      ELSE LET s == ScanLeft(x, rest, rest, 0)
           IN  {[L |-> s.L, arr |-> IF IsLt(s.c) THEN arr ELSE Append(arr, x)]}

LeftIteration(L, arr, g) ==
  LET x == Head(L)
      rest == Tail(L)
      revs == {xr \in x.R : __le__(xr, g)}
  IN  IF revs # {}
      THEN {[L |-> rest \o p, arr |-> arr] : p \in UNION {Orders(xr.L) : xr \in revs}}
      ELSE LET s == ScanLeft(x, rest, rest, 0)
           IN  {[L |-> s.L, arr |-> IF IsLt(s.c) THEN arr ELSE Append(arr, x)]}

RightIteration(R, arr, g) ==
  LET x == Head(R)
      rest == Tail(R)
      revs == {xl \in x.L : __ge__(xl, g)}
  IN  IF revs # {}
      THEN {[R |-> rest \o p, arr |-> arr] : p \in UNION {Orders(xl.R) : xl \in revs}}
      ELSE LET s == ScanRight(x, rest, rest, 0)
           IN  {[R |-> s.R, arr |-> IF IsGt(s.c) THEN arr ELSE Append(arr, x)]}

\* the lists arr the loop "while L:" can end with
RECURSIVE LeftLoop(_, _, _)
LeftLoop(L, arr, g) ==
  IF L = <<>> THEN {arr}
  ELSE UNION {LeftLoop(n.L, n.arr, g) : n \in LeftIteration(L, arr, g)}

RECURSIVE RightLoop(_, _, _)
RightLoop(R, arr, g) ==
  IF R = <<>> THEN {arr}
  ELSE UNION {RightLoop(n.R, n.arr, g) : n \in RightIteration(R, arr, g)}

Range(s) == {s[i] : i \in 1..Len(s)}

\* The instances Game(L, R) can return for candidate sets of games, one for
\* every iteration order of the frozensets involved.
Canonical(L, R) ==
  LET g == MkGame(L, R)
      Ls == UNION {LeftLoop(p, <<>>, g) : p \in Orders(g.L)}
      Rs == UNION {RightLoop(p, <<>>, g) : p \in Orders(g.R)}
  IN  {MkGame(Range(l), Range(r)) : l \in Ls, r \in Rs}

\* ----------------------------------------------------------- constructor
\* What a call leaves behind besides its result: the instances it interned
\* (k = "game") and the keys it added to the memo caches of _sum, __neg__
\* and _mul.  A call whose key is already cached is modelled as computed
\* again: it returns the same instance and leaves the same entries.
Made(x) == [k |-> "game", x |-> x, y |-> x]
Key(k, x, y) == [k |-> k, x |-> x, y |-> y]

\* Game(L, R) for two collections of Game instances: the provisional g and
\* the canonical form are both interned
Game(Lc, Rc) ==
  {[res |-> r, fx |-> {Made(MkGame(Lc, Rc)), Made(r)}] : r \in Canonical(Lc, Rc)}

\* the predefined games of the module
star == (CHOOSE o \in Game({zero}, {zero}) : TRUE).res
up == (CHOOSE o \in Game({zero}, {star}) : TRUE).res
down == (CHOOSE o \in Game({star}, {zero}) : TRUE).res

\* ------------------------------------------------------------- rationals
RECURSIVE gcd(_, _)
gcd(a, b) == IF b = 0 THEN a ELSE gcd(b, a % b)

Abs(a) == IF a < 0 THEN -a ELSE a

\* Rational(n/d) in lowest terms with a positive denominator
_Rational(n, d) ==
  LET k == gcd(Abs(n), d)
  IN  [num |-> n \div k, den |-> d \div k]

RECURSIVE _is_power_of_two(_)

\* a test that halves only once
isOneOrTwo(n) == n = 1 \/ n = 2

_is_power_of_two(n) ==
  IF n = 1 THEN TRUE
  ELSE IF n < 1 \/ n % 2 = 1 THEN FALSE
  ELSE _is_power_of_two(n \div 2)

RatGt(a, b) == a.num * b.den > b.num * a.den
RatAddInt(a, i) == _Rational(a.num + i * a.den, a.den)
RatMid(a, b) == _Rational(a.num * b.den + b.num * a.den, 2 * a.den * b.den)

\* The loop "while arg != m": lInf and rInf say that l is -oo and r is +oo.
RECURSIVE Bisect(_, _, _, _, _, _, _, _, _)
Bisect(arg, Lc, Rc, lInf, l, m, rInf, r, fx) ==
  IF arg = m THEN {[L |-> Lc, R |-> Rc, fx |-> fx]}
  ELSE IF RatGt(arg, m)
  THEN UNION {Bisect(arg, {o.res}, Rc, FALSE, m,
                     IF rInf THEN RatAddInt(m, 1) ELSE RatMid(m, r),
                     rInf, r, fx \cup o.fx) : o \in Game(Lc, Rc)}
  ELSE UNION {Bisect(arg, Lc, {o.res}, lInf, l,
                     IF lInf THEN RatAddInt(m, -1) ELSE RatMid(l, m),
                     FALSE, m, fx \cup o.fx) : o \in Game(Lc, Rc)}

\* Game(n/d) for a finite number; an outcome with err set is the ValueError
FromNumber(n, d) ==
  LET arg == _Rational(n, d)
      m0 == _Rational(0, 1)
  IN  IF ~_is_power_of_two(arg.den)
      THEN {[err |-> TRUE, res |-> zero, fx |-> {}]}
      ELSE UNION {{[err |-> FALSE, res |-> o.res, fx |-> b.fx \cup o.fx]
                     : o \in Game(b.L, b.R)}
                  : b \in Bisect(arg, {}, {}, TRUE, m0, m0, TRUE, m0, {})}

\* [Game(s) for s in S] for a collection S of integers
RECURSIVE FromNumbers(_)
FromNumbers(S) ==
  IF S = {} THEN {[res |-> {}, fx |-> {}]}
  ELSE LET s == CHOOSE s \in S : TRUE
       IN  {[res |-> {o.res} \cup m.res, fx |-> o.fx \cup m.fx]
              : o \in FromNumber(s, 1), m \in FromNumbers(S \ {s})}

\* Game(S) for one iterable of integers: L = R = [Game(s) for s in S]
FromIterable(S) ==
  UNION {{[res |-> o.res, fx |-> m.fx \cup o.fx] : o \in Game(m.res, m.res)}
         : m \in FromNumbers(S)}

\* ------------------------------------------------------------ arithmetic
RECURSIVE _sum(_, _), SumsLeft(_, _), SumsRight(_, _)

\* [s + y for s in S]
SumsLeft(S, y) ==
  IF S = {} THEN {[res |-> {}, fx |-> {}]}
  ELSE LET s == CHOOSE s \in S : TRUE
       IN  {[res |-> {o.res} \cup m.res, fx |-> o.fx \cup m.fx]
              : o \in _sum(s, y), m \in SumsLeft(S \ {s}, y)}

\* [x + s for s in S]
SumsRight(x, S) ==
  IF S = {} THEN {[res |-> {}, fx |-> {}]}
  ELSE LET s == CHOOSE s \in S : TRUE
       IN  {[res |-> {o.res} \cup m.res, fx |-> o.fx \cup m.fx]
              : o \in _sum(x, s), m \in SumsRight(x, S \ {s})}

\* a sum without the moves in y
sumMovingInX(x, y) ==
  UNION {{[res |-> o.res, fx |-> a.fx \cup c.fx \cup o.fx \cup {Key("sum", x, y)}]
            : o \in Game(a.res, c.res)}
         : a \in SumsLeft(x.L, y), c \in SumsLeft(x.R, y)}

_sum(x, y) ==
  UNION {{[res |-> o.res,
           fx |-> a.fx \cup b.fx \cup c.fx \cup d.fx \cup o.fx \cup {Key("sum", x, y)}]
            : o \in Game(a.res \cup b.res, c.res \cup d.res)}
         : a \in SumsLeft(x.L, y), b \in SumsRight(x, y.L),
           c \in SumsLeft(x.R, y), d \in SumsRight(x, y.R)}

RECURSIVE __neg__(_), Negs(_)

\* [-s for s in S]
Negs(S) ==
  IF S = {} THEN {[res |-> {}, fx |-> {}]}
  ELSE LET s == CHOOSE s \in S : TRUE
       IN  {[res |-> {o.res} \cup m.res, fx |-> o.fx \cup m.fx]
              : o \in __neg__(s), m \in Negs(S \ {s})}

__neg__(x) ==
  UNION {{[res |-> o.res, fx |-> a.fx \cup b.fx \cup o.fx \cup {Key("neg", x, x)}]
            : o \in Game(a.res, b.res)}
         : a \in Negs(x.R), b \in Negs(x.L)}

\* self + (-Game(right))
__sub__(x, y) ==
  UNION {{[res |-> s.res, fx |-> n.fx \cup s.fx] : s \in _sum(x, n.res)}
         : n \in __neg__(y)}

RECURSIVE _mul(_, _), Terms(_)

\* a1 * a2 + b1 * b2 - c1 * c2 for t = <<a1, a2, b1, b2, c1, c2>>
Term(t) ==
  UNION {UNION {{[res |-> d.res, fx |-> a.fx \cup b.fx \cup c.fx \cup s.fx \cup d.fx]
                   : d \in __sub__(s.res, c.res)}
                : s \in _sum(a.res, b.res)}
         : a \in _mul(t[1], t[2]), b \in _mul(t[3], t[4]), c \in _mul(t[5], t[6])}

\* the terms of one list comprehension of _mul
Terms(T) ==
  IF T = {} THEN {[res |-> {}, fx |-> {}]}
  ELSE LET t == CHOOSE t \in T : TRUE
       IN  {[res |-> {o.res} \cup m.res, fx |-> o.fx \cup m.fx]
              : o \in Term(t), m \in Terms(T \ {t})}

_mul(x, y) ==
  LET TL == {<<xl, y, x, yl, xl, yl>> : xl \in x.L, yl \in y.L}
            \cup {<<xr, y, x, yr, xr, yr>> : xr \in x.R, yr \in y.R}
      TR == {<<xl, y, x, yr, xl, yr>> : xl \in x.L, yr \in y.R}
            \cup {<<x, yl, xr, y, xr, yl>> : yl \in y.L, xr \in x.R}
  IN  UNION {{[res |-> o.res, fx |-> a.fx \cup b.fx \cup o.fx \cup {Key("mul", x, y)}]
                : o \in Game(a.res, b.res)}
             : a \in Terms(TL), b \in Terms(TR)}

\* ----------------------------------------------------------------- state
VARIABLES
  games,     \* the Game instances the caller holds: zero, star, up, down
             \* and every instance a call has returned
  store,     \* the instances interned by CachedRepresentation
  sumCache,  \* the keys of the cache of _sum
  negCache,  \* the keys of the cache of __neg__
  mulCache,  \* the keys of the cache of _mul
  last,      \* the last call: its operation, arguments and outcome
  calls,     \* the number of calls made
  pc,        \* where a constructor call taken loop by loop stands
  prov,      \* its provisional game g
  queue,     \* its work queue (the list L, then the list R)
  acc,       \* its list arr
  keptL      \* its list L once the Left loop has ended

vars == <<games, store, sumCache, negCache, mulCache, last, calls,
          pc, prov, queue, acc, keptL>>
loopVars == <<pc, prov, queue, acc, keptL>>

SubsetsUpTo(S, n) == {T \in SUBSET S : Cardinality(T) <= n}

\* the state once the module is imported
Init ==
  /\ games = {zero, star, up, down}
  /\ store = {zero, star, up, down}
  /\ sumCache = {}
  /\ negCache = {}
  /\ mulCache = {}
  /\ last = [op |-> "none"]
  /\ calls = 0
  /\ pc = "idle"
  /\ prov = zero
  /\ queue = <<>>
  /\ acc = <<>>
  /\ keptL = {}

\* a call returns o.res and leaves o.fx behind
Returns(op, a, b, o) ==
  /\ calls' = calls + 1
  /\ games' = games \cup {o.res}
  /\ store' = store \cup {e.x : e \in {f \in o.fx : f.k = "game"}}
  /\ sumCache' = sumCache \cup {<<e.x, e.y>> : e \in {f \in o.fx : f.k = "sum"}}
  /\ negCache' = negCache \cup {e.x : e \in {f \in o.fx : f.k = "neg"}}
  /\ mulCache' = mulCache \cup {<<e.x, e.y>> : e \in {f \in o.fx : f.k = "mul"}}
  /\ last' = [op |-> op, a |-> a, b |-> b, err |-> FALSE, res |-> o.res]

\* a call raises ValueError
Raises(op, a, b) ==
  /\ calls' = calls + 1
  /\ last' = [op |-> op, a |-> a, b |-> b, err |-> TRUE]
  /\ UNCHANGED <<games, store, sumCache, negCache, mulCache>>

\* Game(L, R) with two collections of games the caller holds
Construct ==
  /\ calls < MaxCalls
  /\ \E Lc, Rc \in SubsetsUpTo(games, MaxOpts) :
       \E o \in Game(Lc, Rc) : Returns("Game", Lc, Rc, o)
  /\ UNCHANGED loopVars

\* Game(S) with one collection of games the caller holds
ConstructImpartial ==
  /\ calls < MaxCalls
  /\ \E S \in SubsetsUpTo(games, MaxOpts) :
       \E o \in Game(S, S) : Returns("impartial", S, S, o)
  /\ UNCHANGED loopVars

\* Game(S) with one collection of integers
ConstructIntegers ==
  /\ calls < MaxCalls
  /\ \E S \in SubsetsUpTo(-MaxInt..MaxInt, MaxList) \ {{}} :
       \E o \in FromIterable(S) : Returns("integers", S, S, o)
  /\ UNCHANGED loopVars

\* Game(n/d)
ConstructNumber ==
  /\ calls < MaxCalls
  /\ \E n \in -MaxInt..MaxInt, d \in 1..MaxDen :
       \E o \in FromNumber(n, d) :
         IF o.err THEN Raises("number", n, d) ELSE Returns("number", n, d, o)
  /\ UNCHANGED loopVars

Negate ==
  /\ calls < MaxCalls
  /\ \E x \in games : \E o \in __neg__(x) : Returns("neg", x, x, o)
  /\ UNCHANGED loopVars

Add ==
  /\ calls < MaxCalls
  /\ \E x, y \in games : \E o \in _sum(x, y) : Returns("sum", x, y, o)
  /\ UNCHANGED loopVars

Subtract ==
  /\ calls < MaxCalls
  /\ \E x, y \in games : \E o \in __sub__(x, y) : Returns("sub", x, y, o)
  /\ UNCHANGED loopVars

Multiply ==
  /\ calls < MaxCalls
  /\ \E x, y \in {z \in games : _depth(z) <= MaxMulDepth} :
       \E o \in _mul(x, y) : Returns("mul", x, y, o)
  /\ UNCHANGED loopVars

\* Game._cmp(x, y)
Compare ==
  /\ calls < MaxCalls
  /\ \E x, y \in games :
       /\ calls' = calls + 1
       /\ last' = [op |-> "cmp", a |-> x, b |-> y, err |-> FALSE, res |-> _cmp(x, y)]
  /\ UNCHANGED <<games, store, sumCache, negCache, mulCache>>
  /\ UNCHANGED loopVars

Next ==
  \/ Construct
  \/ ConstructImpartial
  \/ ConstructIntegers
  \/ ConstructNumber
  \/ Negate
  \/ Add
  \/ Subtract
  \/ Multiply
  \/ Compare

Spec == Init /\ [][Next]_vars

\* ------------------------------------------ a constructor call made again
\* Game(g.L, g.R) from the option sets of the Game g just returned
Rebuild ==
  /\ calls <= MaxCalls
  /\ last.op = "Game"
  /\ \E o \in Game(last.res.L, last.res.R) :
       Returns("rebuild", last.res, last.res, o)
  /\ UNCHANGED loopVars

RebuildNext == Construct \/ Rebuild

RebuildSpec == Init /\ [][RebuildNext]_vars

\* ------------------------------------------- one constructor call, by steps
\* Game(L, R) taken one loop iteration at a time, to follow its work queue.

\* g is interned and the Left loop starts on list(g.L)
LoopBegin ==
  /\ pc = "idle"
  /\ calls = 0
  /\ \E Lc, Rc \in SubsetsUpTo(games, MaxOpts) :
       /\ prov' = MkGame(Lc, Rc)
       /\ queue' \in Orders(Lc)
  /\ acc' = <<>>
  /\ keptL' = {}
  /\ pc' = "left"
  /\ store' = store \cup {prov'}
  /\ UNCHANGED <<games, sumCache, negCache, mulCache, last, calls>>

\* one iteration of "while L:"
LoopLeft ==
  /\ pc = "left"
  /\ queue # <<>>
  /\ \E n \in LeftIteration(queue, acc, prov) :
       /\ queue' = n.L
       /\ acc' = n.arr
  /\ UNCHANGED <<games, store, sumCache, negCache, mulCache, last, calls,
                 pc, prov, keptL>>

\* L = arr; arr = []; R = list(g.R)
LoopTurn ==
  /\ pc = "left"
  /\ queue = <<>>
  /\ keptL' = Range(acc)
  /\ acc' = <<>>
  /\ queue' \in Orders(prov.R)
  /\ pc' = "right"
  /\ UNCHANGED <<games, store, sumCache, negCache, mulCache, last, calls, prov>>

\* one iteration of "while R:"
LoopRight ==
  /\ pc = "right"
  /\ queue # <<>>
  /\ \E n \in RightIteration(queue, acc, prov) :
       /\ queue' = n.R
       /\ acc' = n.arr
  /\ UNCHANGED <<games, store, sumCache, negCache, mulCache, last, calls,
                 pc, prov, keptL>>

\* R = arr and the canonical form is interned and returned
LoopReturn ==
  /\ pc = "right"
  /\ queue = <<>>
  /\ LET res == MkGame(keptL, Range(acc))
     IN  Returns("Game", prov.L, prov.R, [res |-> res, fx |-> {Made(res)}])
  /\ pc' = "idle"
  /\ UNCHANGED <<prov, queue, acc, keptL>>

LoopStep == LoopLeft \/ LoopTurn \/ LoopRight \/ LoopReturn

LoopNext == LoopBegin \/ LoopStep

\* the interpreter runs the call to its end: no step waits for anything
LoopSpec == Init /\ [][LoopNext]_vars /\ WF_vars(LoopNext)

\* ---------------------------------------------------------------- claims
NoDominated(x) ==
  /\ \A y, z \in x.L : y # z => ~__ge__(y, z)
  /\ \A y, z \in x.R : y # z => ~__le__(y, z)

\* C1: every Game a call has returned is free of dominated options: it has no
\* two distinct Left options y, z with y >= z and no two distinct Right
\* options y, z with y <= z.
NoDominatedOptions == \A x \in games : NoDominated(x)

\* C2: two Games returned by calls compare EQUAL exactly when they are the
\* same instance.
EqualIsSameInstance == \A x, y \in games : (_cmp(x, y) = 0) <=> (x = y)

\* C3: constructing Game(x.L, x.R) from the option sets of a returned Game x
\* returns x itself.
CanonicalizeIdempotent == last.op = "rebuild" => last.res = last.a

\* C4: Game._cmp(x, y) is one of -1, 1, 0, Fuzzy and mirrors Game._cmp(y, x):
\* -1 and 1 are swapped, 0 and Fuzzy are kept.
Mirror(c) == IF c = -1 THEN 1 ELSE IF c = 1 THEN -1 ELSE c

CmpMirrored ==
  last.op = "cmp" =>
    /\ last.res \in {-1, 1, 0, Fuzzy}
    /\ last.res = Mirror(_cmp(last.b, last.a))

\* a comparison of a game a call has built that comes out LESS
CmpMirroredWitness ==
  /\ last.op = "cmp"
  /\ last.res = -1
  /\ last.a \notin {zero, star, up, down}

\* C5: x + (-x) is the instance zero, whether written x - x or as the sum of
\* x and the negation of x.
AdditiveInverse ==
  /\ (last.op = "sub" /\ last.a = last.b) => last.res = zero
  /\ (last.op = "sum" /\ \E n \in __neg__(last.a) : n.res = last.b)
       => last.res = zero

\* x - x for a game x a call has built
AdditiveInverseWitness ==
  /\ last.op = "sub"
  /\ last.a = last.b
  /\ last.a \notin {zero, star, up, down}
  /\ last.res = zero

\* C6: Game(S) for a non-empty collection S of integers has the Left set
\* {Game(max S)} and the Right set {Game(min S)}.
Max(S) == CHOOSE m \in S : \A e \in S : e <= m
Min(S) == CHOOSE m \in S : \A e \in S : m <= e

IntegersCollapse ==
  last.op = "integers" =>
    \E hi \in FromNumber(Max(last.a), 1), lo \in FromNumber(Min(last.a), 1) :
      last.res = MkGame({hi.res}, {lo.res})

\* Game([1, 2, 3]) has been built
IntegersCollapseWitness ==
  /\ last.op = "integers"
  /\ last.a = {1, 2, 3}
  /\ Cardinality(last.res.L) = 1

\* C7 as stated: Game(2) is {{{|}|}|} and has depth 3.
NestedTwo == MkGame({MkGame({zero}, {})}, {})

GameTwoDepthThree ==
  (last.op = "number" /\ last.a = 2 /\ last.b = 1) =>
    /\ last.res = NestedTwo
    /\ _depth(last.res) = 3

\* C7: Game(2) is {{{|}|}|} and has depth 2.
GameTwoDepthTwo ==
  (last.op = "number" /\ last.a = 2 /\ last.b = 1) =>
    /\ last.res = NestedTwo
    /\ _depth(last.res) = 2

\* Game(2) has been built
GameTwoWitness ==
  /\ last.op = "number"
  /\ last.a = 2
  /\ last.b = 1
  /\ ~last.err

\* C8: Game(n/d) raises ValueError exactly when n/d in lowest terms has a
\* denominator that is no power of two, and then interns no instance and
\* adds no key to a memo cache; every other n/d yields a Game.
Dyadic(n, d) == \E k \in 0..d : (n * 2^k) % d = 0

NonDyadicRejected ==
  [][(calls' = calls + 1 /\ last'.op = "number") =>
       IF Dyadic(last'.a, last'.b)
       THEN ~last'.err /\ last'.res \in games' /\ last'.res \in store'
       ELSE /\ last'.err
            /\ UNCHANGED <<games, store, sumCache, negCache, mulCache>>]_vars

\* Game(1/3) has raised
NonDyadicRejectedWitness ==
  /\ last.op = "number"
  /\ last.a = 1
  /\ last.b = 3
  /\ last.err

\* A candidate weighs one more than all the candidates that can be spliced in
\* for it: the Left options of its Right options in the Left loop, the Right
\* options of its Left options in the Right loop.
RECURSIVE Total(_)
Total(T) ==
  IF T = {} THEN 0
  ELSE LET t == CHOOSE t \in T : TRUE
       IN  t[3] + Total(T \ {t})

RECURSIVE LeftWeight(_)
LeftWeight(x) ==
  1 + Total(UNION {{<<xr, z, LeftWeight(z)>> : z \in xr.L} : xr \in x.R})

RECURSIVE RightWeight(_)
RightWeight(x) ==
  1 + Total(UNION {{<<xl, z, RightWeight(z)>> : z \in xl.R} : xl \in x.L})

QueueWeight(side) ==
  Total({<<i, i, IF side = "left" THEN LeftWeight(queue[i]) ELSE RightWeight(queue[i])>>
           : i \in 1..Len(queue)})

\* C9: the Left and the Right work-queue loops of a constructor call end:
\* every iteration takes one candidate off the queue and adds at most options
\* of one of its options, so the weight of the queue goes down, and the call
\* returns.
Terminates ==
  /\ [][(pc = "left" /\ pc' = "left") => QueueWeight("left")' < QueueWeight("left")]_vars
  /\ [][(pc = "right" /\ pc' = "right") => QueueWeight("right")' < QueueWeight("right")]_vars
  /\ [](pc \in {"left", "right"} => <>(pc = "idle"))

\* the Left loop holds a candidate spliced in for a reversible one
TerminatesWitness ==
  /\ pc = "left"
  /\ \E i \in 1..Len(queue) : queue[i] \notin prov.L

\* C10: the Game the constructor returns compares EQUAL with the provisional
\* game g built from the raw candidate sets.
ValuePreserved ==
  last.op \in {"Game", "impartial"} =>
    _cmp(last.res, MkGame(last.a, last.b)) = 0

\* a returned Game with a Left option that was spliced in
ValuePreservedWitness ==
  /\ last.op = "Game"
  /\ \E z \in last.res.L : z \notin last.a
  /\ _cmp(last.res, MkGame(last.a, last.b)) = 0
====
